---- MODULE Spec2Model ----
(***************************************************************************)
(* Verification model of docling_serve's post-processing stages:           *)
(*   - document_enhancement/ocr_enhancer.py  (OCREnhancer)                 *)
(*   - picture_annotation/annotation_service.py (PictureAnnotationService) *)
(*   - datamodel/convert.py (PictureAnnotationOptions and its validator)   *)
(*                                                                         *)
(* Python strings that the code inspects character by character (join,     *)
(* strip) are sequences of one-character strings; strings that are only    *)
(* compared or concatenated are TLA+ strings.  Confidences are integers in *)
(* hundredths (0.5 is 50).  An exception is a value: every handler yields  *)
(* a record whose kind is "return" or "raise".                             *)
(***************************************************************************)
EXTENDS Integers, Sequences, FiniteSets, TLC

VARIABLES
    models_loaded,  \* OCREnhancer._models_loaded
    load,           \* what __init__ did: predictor loads attempted, and whether they succeeded
    phase,          \* "idle": no call in progress; "done": a call has returned
    ocr,            \* the last extract_text_from_region call, or None
    tbl,            \* the last enhance_table_structure call, or None
    environ,        \* os.environ, the variables the service reads
    pc,             \* position of the annotation pipeline
    req,            \* arguments given to PictureAnnotationOptions(...), or None
    options,        \* the PictureAnnotationOptions object, or None
    service,        \* the PictureAnnotationService instance, or None
    calls,          \* chat-completion calls made so far
    result          \* what the last annotate_image call did, or None

enh_vars == <<models_loaded, load, phase, ocr, tbl>>
ann_vars == <<environ, pc, req, options, service, calls, result>>
vars == <<models_loaded, load, phase, ocr, tbl, environ, pc, req, options, service, calls, result>>

None == "None"            \* None where the other values are strings
NoneObj == [none |-> TRUE] \* None where the other values are objects

Max(a, b) == IF a >= b THEN a ELSE b
Min(a, b) == IF a <= b THEN a ELSE b

(***************************************************************************)
(* Bounds of the model.                                                    *)
(***************************************************************************)
MaxDim == 2      \* the image is MaxDim x MaxDim pixels
MaxLines == 2    \* text lines in one recognition result
MaxRow == 1      \* table rows are 0..MaxRow
MaxCells == 2    \* cells in a table, and in a table-structure result
MaxCalls == 2    \* annotate_image calls on one service

(***************************************************************************)
(* OCREnhancer.__init__                                                    *)
(***************************************************************************)
\* The flag __init__ leaves: set only when surya imported and all three
\* predictors were constructed.
OCREnhancerInit(surya_available, load_ok) ==
    IF surya_available
    THEN (IF load_ok THEN TRUE ELSE FALSE)
    ELSE FALSE

\* lines 23-33: the predictors are constructed once, inside __init__, and only
\* when surya imported; ok tells whether the models are there afterwards
OCREnhancerLoad(surya_available, load_ok) ==
    [attempts |-> IF surya_available THEN 1 ELSE 0,
     ok |-> surya_available /\ load_ok]

(***************************************************************************)
(* extract_text_from_region                                                *)
(***************************************************************************)
thr == 2
scale_w == 3
scale_h == 3
ConfThreshold == 50     \* 0.5, in hundredths

Space == " "

\* ' '.join(lines)
RECURSIVE Join(_)
Join(lines) ==
    IF Len(lines) = 0 THEN <<>>
    ELSE IF Len(lines) = 1 THEN lines[1]
    ELSE lines[1] \o <<Space>> \o Join(Tail(lines))

\* str.lstrip() / str.rstrip() / str.strip() on whitespace
RECURSIVE LStrip(_)
LStrip(s) == IF Len(s) > 0 /\ s[1] = Space THEN LStrip(Tail(s)) ELSE s

RECURSIVE RStrip(_)
RStrip(s) ==
    IF Len(s) > 0 /\ s[Len(s)] = Space THEN RStrip(SubSeq(s, 1, Len(s) - 1)) ELSE s

Strip(s) == RStrip(LStrip(s))

\* The filter with >= in place of > (the mutant of HighConfidenceLines).
RECURSIVE HighConfidenceLinesGE(_)
HighConfidenceLinesGE(text_lines) ==
    IF Len(text_lines) = 0 THEN <<>>
    ELSE (IF Head(text_lines).confidence >= ConfThreshold
          THEN <<Head(text_lines).text>>
          ELSE <<>>) \o HighConfidenceLinesGE(Tail(text_lines))

\* the loop of lines 75-77: texts of the lines with confidence > 0.5, in order
RECURSIVE HighConfidenceLines(_)
HighConfidenceLines(text_lines) ==
    IF Len(text_lines) = 0 THEN <<>>
    ELSE (IF Head(text_lines).confidence > ConfThreshold
          THEN <<Head(text_lines).text>>
          ELSE <<>>) \o HighConfidenceLines(Tail(text_lines))

\* lines 46-49: the padded region clamped to the image
CropBox(bbox, width, height) ==
    [left   |-> Max(bbox[1] - thr, 0),
     top    |-> Max(bbox[2] - thr, 0),
     right  |-> Min(bbox[3] + thr, width),
     bottom |-> Min(bbox[4] + thr, height)]

\* Image.crop rejects a box whose right is less than its left, or whose lower
\* is less than its upper, with a ValueError; an empty box it accepts.
CropRejects(box) == box.right < box.left \/ box.bottom < box.top

\* the size of the cropped image
CroppedSize(box) ==
    [width  |-> Max(box.right - box.left, 0),
     height |-> Max(box.bottom - box.top, 0)]

\* lines 57-61: the white canvas and the paste position
Canvas(cropped) ==
    [bg_w    |-> cropped.width * scale_w,
     bg_h    |-> cropped.height * scale_h,
     paste_x |-> (cropped.width * scale_w - cropped.width) \div 2,
     paste_y |-> (cropped.height * scale_h - cropped.height) \div 2]

\* lines 72-80, given what the recognition predictor returned
MergeLines(predictions, old_text) ==
    LET lines == IF Len(predictions) > 0
                 THEN HighConfidenceLines(predictions[1])
                 ELSE <<>>
        enhanced_text == Strip(Join(lines))
    IN  IF Len(enhanced_text) > 0 THEN enhanced_text ELSE old_text

\* lines 51-80, the body of the try block from the crop on; box is the
\* rectangle of lines 46-49.  fault names the step that raises ("crop",
\* "canvas", "backend") or is "none".  Nothing in it looks at the size of the
\* crop: an empty crop goes to the recognition predictor like any other.
ExtractBody(box, old_text, fault, predictions) ==
    IF CropRejects(box) \/ fault = "crop" \/ fault = "canvas"
    THEN [kind |-> "raise", text |-> <<>>, backend_called |-> FALSE]
    ELSE IF fault = "backend"
    THEN [kind |-> "raise", text |-> <<>>, backend_called |-> TRUE]
    ELSE [kind |-> "return",
          text |-> MergeLines(predictions, old_text),
          backend_called |-> TRUE]

\* The call without its try/except (the mutant of ExtractTextFromRegion).
ExtractNoCatch(loaded, box, old_text, fault, predictions) ==
    IF ~loaded
    THEN [kind |-> "return", text |-> old_text, backend_called |-> FALSE]
    ELSE ExtractBody(box, old_text, fault, predictions)

\* extract_text_from_region, lines 35-84
ExtractTextFromRegion(loaded, box, old_text, fault, predictions) ==
    IF ~loaded
    THEN [kind |-> "return", text |-> old_text, backend_called |-> FALSE]
    ELSE LET r == ExtractBody(box, old_text, fault, predictions)
         IN  IF r.kind = "raise"
             THEN [kind |-> "return", text |-> old_text,
                   backend_called |-> r.backend_called]
             ELSE r

(***************************************************************************)
(* enhance_table_structure                                                 *)
(***************************************************************************)
Rows == 0 .. MaxRow
Cols == {0, 1}
Keys == Rows \X Cols

OrigBBox == <<"orig">>
NoKey == <<>>

\* BoundingBoxConverter.update_cell_bbox (bbox_utils is not among the sources):
\* rewrites the bbox of the cell it is given from the model-space estimate,
\* and touches nothing else.
UpdateCellBBox(cell, surya_cell) ==
    [cell EXCEPT !.bbox = <<"native", surya_cell.bbox>>]

\* line 103: {(cell.row_id, cell.col_id): cell for cell in surya_table.cells};
\* a later cell with the same key replaces an earlier one
SuryaCellDict(surya_cells) ==
    LET keyOf(i) == <<surya_cells[i].row_id, surya_cells[i].col_id>>
        ks == {keyOf(i) : i \in 1 .. Len(surya_cells)}
        last(k) == CHOOSE i \in 1 .. Len(surya_cells) :
                       /\ keyOf(i) = k
                       /\ \A j \in 1 .. Len(surya_cells) : keyOf(j) = k => j <= i
    IN  [k \in ks |-> surya_cells[last(k)]]

\* A loop that matches on the row alone (the mutant of UpdateCells).
RECURSIVE UpdateCellsRowOnly(_, _, _, _, _)
UpdateCellsRowOnly(cells, i, surya_cell_dict, fail_key, invoked) ==
    IF i > Len(cells)
    THEN [cells |-> cells, raised |-> FALSE, invoked |-> invoked]
    ELSE LET hits == {k \in DOMAIN surya_cell_dict : k[1] = cells[i].start_row_offset_idx}
         IN  IF hits # {}
             THEN LET key == CHOOSE k \in hits : TRUE
                  IN  UpdateCellsRowOnly(
                          [cells EXCEPT ![i] = UpdateCellBBox(cells[i], surya_cell_dict[key])],
                          i + 1, surya_cell_dict, fail_key, invoked \cup {i})
             ELSE UpdateCellsRowOnly(cells, i + 1, surya_cell_dict, fail_key, invoked)

\* lines 106-114: the loop over table_item.data.table_cells, from cell i on.
\* fail_key is the (row, col) at which the converter raises, or NoKey.
\* invoked collects the indexes of the cells handed to the converter.
RECURSIVE UpdateCells(_, _, _, _, _)
UpdateCells(cells, i, surya_cell_dict, fail_key, invoked) ==
    IF i > Len(cells)
    THEN [cells |-> cells, raised |-> FALSE, invoked |-> invoked]
    ELSE LET key == <<cells[i].start_row_offset_idx, cells[i].start_col_offset_idx>>
         IN  IF key \in DOMAIN surya_cell_dict
             THEN IF key = fail_key
                  THEN [cells |-> cells, raised |-> TRUE,
                        invoked |-> invoked \cup {i}]
                  ELSE UpdateCells(
                           [cells EXCEPT ![i] = UpdateCellBBox(cells[i], surya_cell_dict[key])],
                           i + 1, surya_cell_dict, fail_key, invoked \cup {i})
             ELSE UpdateCells(cells, i + 1, surya_cell_dict, fail_key, invoked)

\* The call without the check of _models_loaded (the mutant of
\* EnhanceTableStructure).
EnhanceTableStructureNoGuard(loaded, cells, backend, fail_key) ==
    IF backend.raises
    THEN [kind |-> "return", cells |-> cells, error |-> TRUE,
          backend_called |-> TRUE, invoked |-> {}]
    ELSE IF Len(backend.predictions) = 0
    THEN [kind |-> "return", cells |-> cells, error |-> FALSE,
          backend_called |-> TRUE, invoked |-> {}]
    ELSE LET r == UpdateCells(cells, 1, SuryaCellDict(backend.predictions[1]), fail_key, {})
         IN  [kind |-> "return", cells |-> r.cells, error |-> r.raised,
              backend_called |-> TRUE, invoked |-> r.invoked]

\* enhance_table_structure, lines 86-117.  backend.raises: the import or the
\* table predictor raised; backend.predictions: the list the predictor returned.  The cells
\* are mutated in place: whatever the loop wrote before an exception stays.
EnhanceTableStructure(loaded, cells, backend, fail_key) ==
    IF ~loaded
    THEN [kind |-> "return", cells |-> cells, error |-> FALSE,
          backend_called |-> FALSE, invoked |-> {}]
    ELSE IF backend.raises
    THEN [kind |-> "return", cells |-> cells, error |-> TRUE,
          backend_called |-> TRUE, invoked |-> {}]
    ELSE IF Len(backend.predictions) = 0
    THEN [kind |-> "return", cells |-> cells, error |-> FALSE,
          backend_called |-> TRUE, invoked |-> {}]
    ELSE LET r == UpdateCells(cells, 1, SuryaCellDict(backend.predictions[1]), fail_key, {})
         IN  [kind |-> "return", cells |-> r.cells, error |-> r.raised,
              backend_called |-> TRUE, invoked |-> r.invoked]

(***************************************************************************)
(* Inputs of the enhancer                                                  *)
(***************************************************************************)
SeqsUpTo(S, n) == UNION {[1 .. k -> S] : k \in 0 .. n}

ImageWidth == MaxDim
ImageHeight == MaxDim
\* coordinates on both sides of each clamp of lines 46-49
Coords == {0 - thr - 2, 0 - thr - 1, 0 - thr, 0, thr + 1,
           MaxDim, MaxDim + thr, MaxDim + thr + 1, MaxDim + thr + 2}
BBoxes == {b \in Coords \X Coords \X Coords \X Coords : b[1] < b[3] /\ b[2] < b[4]}
\* the crop rectangles these regions give
CropBoxes == {CropBox(b, ImageWidth, ImageHeight) : b \in BBoxes}

OldTexts == {<<>>, <<"o">>}
LineTexts == {<<"H">>, <<Space>>, <<"x", Space>>}
Confidences == {30, 50, 90}
TextLines == [text : LineTexts, confidence : Confidences]
\* what the recognition predictor returns: no prediction, or one per image
Predictions == {<<>>} \cup {<<tl>> : tl \in SeqsUpTo(TextLines, MaxLines)}
Faults == {"none", "crop", "canvas", "backend"}

TableCells == [start_row_offset_idx : Rows, start_col_offset_idx : Cols, bbox : {OrigBBox}]
Tables == SeqsUpTo(TableCells, MaxCells)
SuryaCells == [row_id : Rows, col_id : Cols, bbox : {"model"}]
TablePredictions == {<<>>} \cup {<<sc>> : sc \in SeqsUpTo(SuryaCells, MaxCells)}
TableBackends == {[raises |-> TRUE, predictions |-> <<>>]}
                 \cup [raises : {FALSE}, predictions : TablePredictions]

(***************************************************************************)
(* The enhancer as a state machine: one instance, one call at a time.      *)
(***************************************************************************)
NoCall == [kind |-> "none"]

EnhInit ==
    /\ \E surya_available \in BOOLEAN, load_ok \in BOOLEAN :
           /\ models_loaded = OCREnhancerInit(surya_available, load_ok)
           /\ load = OCREnhancerLoad(surya_available, load_ok)
    /\ phase = "idle"
    /\ ocr = NoCall
    /\ tbl = NoCall

ExtractCall ==
    /\ phase = "idle"
    /\ \E box \in CropBoxes, old_text \in OldTexts, fault \in Faults,
          predictions \in Predictions :
           LET r == ExtractTextFromRegion(models_loaded, box, old_text,
                                          fault, predictions)
           IN  \* a step that is never reached cannot be the one that raises
               /\ (~models_loaded) => (fault = "none" /\ predictions = <<>>)
               /\ (fault # "none" \/ CropRejects(box)) => predictions = <<>>
               /\ CropRejects(box) => fault = "none"
               /\ ocr' = [kind |-> "call", old_text |-> old_text, box |-> box,
                          canvas |-> Canvas(CroppedSize(box)),
                          fault |-> fault, predictions |-> predictions,
                          outcome |-> r]
    /\ phase' = "done"
    /\ UNCHANGED <<models_loaded, load, tbl>>

TableCall ==
    /\ phase = "idle"
    /\ \E cells \in Tables, backend \in TableBackends, fail_key \in Keys \cup {NoKey} :
           LET r == EnhanceTableStructure(models_loaded, cells, backend, fail_key)
           IN  /\ (~models_loaded) =>
                      (~backend.raises /\ backend.predictions = <<>> /\ fail_key = NoKey)
               \* the converter raises only where it is invoked
               /\ (fail_key # NoKey) => (r.error /\ ~backend.raises)
               /\ tbl' = [kind |-> "call", pre |-> cells, backend |-> backend, fail_key |-> fail_key,
                          post |-> r.cells, outcome |-> r]
    /\ phase' = "done"
    /\ UNCHANGED <<models_loaded, load, ocr>>

\* the caller takes the result; the instance is ready for the next call
NextCall ==
    /\ phase = "done"
    /\ phase' = "idle"
    /\ ocr' = NoCall
    /\ tbl' = NoCall
    /\ UNCHANGED <<models_loaded, load>>

AnnIdle ==
    /\ environ = NoneObj /\ pc = "off" /\ req = NoneObj /\ options = NoneObj
    /\ service = NoneObj /\ calls = 0 /\ result = NoneObj

Init == EnhInit /\ AnnIdle

Next ==
    \/ (ExtractCall /\ UNCHANGED ann_vars)
    \/ (TableCall /\ UNCHANGED ann_vars)
    \/ (NextCall /\ UNCHANGED ann_vars)

Spec == Init /\ [][Next]_vars

(***************************************************************************)
(* Claims about the enhancer                                               *)
(***************************************************************************)
OcrCalled == ocr.kind = "call"
TblCalled == tbl.kind = "call"

\* C1: extract_text_from_region never raises; when the models are not loaded,
\* or cropping, canvas construction or the recognition backend raises, it
\* returns old_text unchanged.
C1_NeverRaises ==
    OcrCalled =>
        /\ ocr.outcome.kind = "return"
        /\ (~models_loaded \/ ocr.fault # "none" \/ CropRejects(ocr.box))
               => ocr.outcome.text = ocr.old_text

C1_Witness ==
    /\ OcrCalled /\ models_loaded /\ ocr.fault = "backend"
    /\ ocr.old_text = <<"o">> /\ ocr.outcome.text = <<"o">>

\* The property of C2, stated without the code's helpers: the selected lines
\* joined left to right, then cut to the span between the first and the last
\* character that is not a space.
RECURSIVE JoinedUpTo(_, _)
JoinedUpTo(texts, k) ==
    IF k = 0 THEN <<>>
    ELSE IF k = 1 THEN texts[1]
    ELSE JoinedUpTo(texts, k - 1) \o <<" ">> \o texts[k]

Trimmed(s) ==
    LET idx == {i \in 1 .. Len(s) : s[i] # " "}
    IN  IF idx = {} THEN <<>>
        ELSE SubSeq(s, CHOOSE i \in idx : \A j \in idx : i <= j,
                       CHOOSE i \in idx : \A j \in idx : j <= i)

ConfidentText(predictions) ==
    IF predictions = <<>> THEN <<>>
    ELSE LET sel == SelectSeq(predictions[1], LAMBDA l : l.confidence > 50)
             texts == [i \in 1 .. Len(sel) |-> sel[i].text]
         IN  Trimmed(JoinedUpTo(texts, Len(texts)))

\* C2: when the recognition backend returns normally, the result is the texts
\* of exactly the lines with confidence strictly above 0.5, in order, joined by
\* one space and trimmed; if that is empty the result is old_text.
C2_ConfidentLines ==
    (OcrCalled /\ ocr.outcome.backend_called /\ ocr.fault = "none") =>
        /\ ocr.outcome.kind = "return"
        /\ ocr.outcome.text =
               (IF ConfidentText(ocr.predictions) = <<>>
                THEN ocr.old_text
                ELSE ConfidentText(ocr.predictions))

\* ("H", 0.9), ("x ", 0.3) gives "H"
C2_Witness ==
    /\ OcrCalled /\ models_loaded /\ ocr.fault = "none"
    /\ ocr.predictions = << <<[text |-> <<"H">>, confidence |-> 90],
                              [text |-> <<"x", " ">>, confidence |-> 30]>> >>
    /\ ocr.outcome.text = <<"H">>

\* the crop rectangle is empty or inverted: the region lies outside the image
RegionOutside == ocr.box.right <= ocr.box.left \/ ocr.box.bottom <= ocr.box.top

\* C3: for a region fully outside the image after padding and clamping, the
\* call does not raise and returns old_text, whatever the backend returns.
C3_OutsideReturnsOldText ==
    (OcrCalled /\ RegionOutside) =>
        (ocr.outcome.kind = "return" /\ ocr.outcome.text = ocr.old_text)

\* C4: if any error occurs during enhance_table_structure, every TableCell
\* equals its pre-call state afterwards and no exception reaches the caller.
C4_ErrorLeavesCellsUntouched ==
    (TblCalled /\ tbl.outcome.error) =>
        (tbl.outcome.kind = "return" /\ tbl.post = tbl.pre)

\* the (row_id, col_id) pairs of the table-structure model's output
SuryaKeys ==
    IF tbl.backend.raises \/ tbl.backend.predictions = <<>> THEN {}
    ELSE {<<tbl.backend.predictions[1][i].row_id, tbl.backend.predictions[1][i].col_id>> :
              i \in 1 .. Len(tbl.backend.predictions[1])}

Matched(i) ==
    <<tbl.pre[i].start_row_offset_idx, tbl.pre[i].start_col_offset_idx>> \in SuryaKeys

\* C5: a TableCell with no SuryaCell at its (row, col) is identical to its
\* pre-call state after the call, and the converter is invoked only for cells
\* that have a match.
C5_UnmatchedCellsUnchanged ==
    TblCalled =>
        /\ Len(tbl.post) = Len(tbl.pre)
        /\ \A i \in 1 .. Len(tbl.pre) : ~Matched(i) => tbl.post[i] = tbl.pre[i]
        /\ \A i \in tbl.outcome.invoked : Matched(i)

C5_Witness ==
    /\ TblCalled /\ Len(tbl.pre) = 2
    /\ Matched(1) /\ tbl.post[1] # tbl.pre[1]
    /\ ~Matched(2) /\ tbl.post[2] = tbl.pre[2]
    /\ tbl.pre[2].start_row_offset_idx = tbl.pre[1].start_row_offset_idx
    /\ tbl.outcome.invoked = {1}

(***************************************************************************)
(* Picture annotation: options, service, dispatch                          *)
(***************************************************************************)
\* PictureAnnotationModelType: the members' values
TYPE_LOCAL == "local"
TYPE_RUNPOD == "runpod"
TYPE_OPENAI == "openai"
ModelTypes == {TYPE_LOCAL, TYPE_RUNPOD, TYPE_OPENAI}

DefaultRunPodModel == "Qwen/Qwen2.5-VL-3B-Instruct"
DefaultOpenAIModel == "gpt-4-vision-preview"

\* RunPodAnnotationConfig(api_key=..., worker_id=..., model=...); prompt and
\* temperature keep their defaults and decide nothing here
RunPodAnnotationConfig(api_key, worker_id, model) ==
    [api_key |-> api_key, worker_id |-> worker_id, model |-> model]

\* OpenAIAnnotationConfig(api_key=...): the model defaults
OpenAIAnnotationConfig(api_key) ==
    [api_key |-> api_key, model |-> DefaultOpenAIModel]

\* PictureAnnotationOptions: the three fields
Options(model_type, runpod_config, openai_config) ==
    [model_type |-> model_type, runpod_config |-> runpod_config,
     openai_config |-> openai_config]

\* validate_model_config (mode="after"): TRUE when it raises ValueError
ValidateModelConfigRaises(o) ==
    \/ (o.model_type = TYPE_RUNPOD /\ o.runpod_config = NoneObj)
    \/ (o.model_type = TYPE_OPENAI /\ o.openai_config = NoneObj)

\* os.getenv(name) / os.getenv(name, default)
GetEnv(env, name) == env[name]
GetEnvDefault(env, name, default) == IF env[name] = None THEN default ELSE env[name]

\* Python's truth value of an Optional[str]
Truthy(v) == v # None /\ v # ""

\* A validation that asks for the API key alone (the mutant of
\* ValidateConfiguration).
ValidateConfigurationKeyOnly(o, env) ==
    IF o.model_type = TYPE_RUNPOD /\ o.runpod_config = NoneObj
    THEN IF ~Truthy(GetEnv(env, "RUNPOD_API_KEY"))
         THEN [raises |-> TRUE, options |-> o]
         ELSE [raises |-> FALSE,
               options |-> [o EXCEPT !.runpod_config =
                   RunPodAnnotationConfig(GetEnv(env, "RUNPOD_API_KEY"),
                                          GetEnv(env, "RUNPOD_WORKER"),
                                          GetEnvDefault(env, "RUNPOD_MODEL", DefaultRunPodModel))]]
    ELSE IF o.model_type = TYPE_OPENAI /\ o.openai_config = NoneObj
    THEN IF ~Truthy(GetEnv(env, "OPENAI_API_KEY"))
         THEN [raises |-> TRUE, options |-> o]
         ELSE [raises |-> FALSE,
               options |-> [o EXCEPT !.openai_config =
                   OpenAIAnnotationConfig(GetEnv(env, "OPENAI_API_KEY"))]]
    ELSE [raises |-> FALSE, options |-> o]

\* _validate_configuration, lines 30-64: raises, or leaves self.options with
\* the config of the selected kind filled in from the environment
ValidateConfiguration(o, env) ==
    IF o.model_type = TYPE_RUNPOD /\ o.runpod_config = NoneObj
    THEN IF ~Truthy(GetEnv(env, "RUNPOD_API_KEY")) \/ ~Truthy(GetEnv(env, "RUNPOD_WORKER"))
         THEN [raises |-> TRUE, options |-> o]
         ELSE [raises |-> FALSE,
               options |-> [o EXCEPT !.runpod_config =
                   RunPodAnnotationConfig(GetEnv(env, "RUNPOD_API_KEY"),
                                          GetEnv(env, "RUNPOD_WORKER"),
                                          GetEnvDefault(env, "RUNPOD_MODEL", DefaultRunPodModel))]]
    ELSE IF o.model_type = TYPE_OPENAI /\ o.openai_config = NoneObj
    THEN IF ~Truthy(GetEnv(env, "OPENAI_API_KEY"))
         THEN [raises |-> TRUE, options |-> o]
         ELSE [raises |-> FALSE,
               options |-> [o EXCEPT !.openai_config =
                   OpenAIAnnotationConfig(GetEnv(env, "OPENAI_API_KEY"))]]
    ELSE [raises |-> FALSE, options |-> o]

\* AnnotationResult(text=..., provenance=..., error=...); confidence stays None
AnnotationResult(text, provenance, error) ==
    [text |-> text, provenance |-> provenance, confidence |-> None, error |-> error]

\* What a handler did: returned an AnnotationResult or raised; the handler
\* entered; the chat-completion calls it made.
Returned(handler, res, n) ==
    [kind |-> "return", res |-> res, error |-> None, handler |-> handler, called |-> n]
Raised(handler, msg, n) ==
    [kind |-> "raise", res |-> NoneObj, error |-> msg, handler |-> handler, called |-> n]

\* _annotate_with_local_model, lines 86-93
AnnotateWithLocalModel ==
    Returned("local", AnnotationResult("Local model annotation placeholder",
                                       "local_model", None), 0)

\* The steps shared by the two API handlers.  fault: "encode" (image.save
\* raises), "call" (chat.completions.create raises, e.g. a timeout), "parse"
\* (the response has no first choice), or "none".  content is
\* response.choices[0].message.content.
ApiHandler(handler, config, missing_msg, prefix, fault, content) ==
    IF config = NoneObj THEN Raised(handler, missing_msg, 0)
    ELSE IF fault = "encode" THEN Raised(handler, "cannot write image", 0)
    ELSE IF fault = "call" THEN Raised(handler, "Request timed out.", 1)
    ELSE IF fault = "parse" THEN Raised(handler, "list index out of range", 1)
    ELSE Returned(handler,
                  AnnotationResult(IF content = None THEN "" ELSE content,
                                   prefix \o config.model, None), 1)

\* A handler that tags its result with the other backend's name (the mutant
\* of AnnotateWithRunpod).
AnnotateWithRunpodWrongTag(o, fault, content) ==
    ApiHandler("runpod", o.runpod_config, "RunPod configuration not available",
               "openai:", fault, content)

\* _annotate_with_runpod, lines 95-136
AnnotateWithRunpod(o, fault, content) ==
    ApiHandler("runpod", o.runpod_config, "RunPod configuration not available",
               "runpod:", fault, content)

\* A handler whose provenance leaves the model out (the mutant of
\* AnnotateWithOpenai).
AnnotateWithOpenaiNoModel(o, fault, content) ==
    LET r == ApiHandler("openai", o.openai_config, "OpenAI configuration not available",
                        "openai:", fault, content)
    IN  IF r.kind = "return"
        THEN [r EXCEPT !.res = AnnotationResult(r.res.text, "openai", None)]
        ELSE r

\* _annotate_with_openai, lines 138-178
AnnotateWithOpenai(o, fault, content) ==
    ApiHandler("openai", o.openai_config, "OpenAI configuration not available",
               "openai:", fault, content)

\* lines 69-76: the dispatch inside the try block
Dispatch(o, fault, content) ==
    IF o.model_type = TYPE_LOCAL THEN AnnotateWithLocalModel
    ELSE IF o.model_type = TYPE_RUNPOD THEN AnnotateWithRunpod(o, fault, content)
    ELSE IF o.model_type = TYPE_OPENAI THEN AnnotateWithOpenai(o, fault, content)
    ELSE Raised("none", "Unsupported model type", 0)

\* The dispatch without its try/except (the mutant of AnnotateImage).
AnnotateImageNoCatch(o, fault, content) == Dispatch(o, fault, content)

\* A dispatch that is tried once more after a failure (the mutant of
\* AnnotateImage for the single-shot claim).
AnnotateImageRetry(o, fault, content) ==
    LET r == Dispatch(o, fault, content)
    IN  IF r.kind = "raise"
        THEN [r EXCEPT !.kind = "return",
                       !.res = AnnotationResult("", o.model_type, r.error),
                       !.called = r.called + Dispatch(o, fault, content).called]
        ELSE r

\* annotate_image, lines 66-84
AnnotateImage(o, fault, content) ==
    LET r == Dispatch(o, fault, content)
    IN  IF r.kind = "raise"
        THEN [r EXCEPT !.kind = "return",
                       !.res = AnnotationResult("", o.model_type, r.error)]
        ELSE r

(***************************************************************************)
(* Inputs of the annotation pipeline                                       *)
(***************************************************************************)
Environs ==
    [RUNPOD_API_KEY : {None, "", "rp-env-key"},
     RUNPOD_WORKER  : {None, "env-worker"},
     RUNPOD_MODEL   : {None, "env-model"},
     OPENAI_API_KEY : {None, "oa-env-key"}]

GivenRunPodConfigs ==
    {NoneObj,
     RunPodAnnotationConfig("rp-key", "worker", DefaultRunPodModel),
     RunPodAnnotationConfig("rp-key", "worker", "custom-model")}
GivenOpenAIConfigs ==
    {NoneObj, [api_key |-> "oa-key", model |-> "gpt-4o"]}

AnnFaults == {"none", "encode", "call", "parse"}
Contents == {None, "", "a red car"}

(***************************************************************************)
(* The annotation pipeline: options, then the service, then its calls.     *)
(***************************************************************************)
AnnInit ==
    /\ environ \in Environs
    /\ pc = "start"
    /\ req = NoneObj
    /\ options = NoneObj
    /\ service = NoneObj
    /\ calls = 0
    /\ result = NoneObj

\* PictureAnnotationOptions(model_type=..., runpod_config=..., openai_config=...):
\* the fields are set, then validate_model_config runs
ConstructOptions ==
    /\ pc = "start"
    /\ \E mt \in ModelTypes, rc \in GivenRunPodConfigs, oc \in GivenOpenAIConfigs :
           LET o == Options(mt, rc, oc)
           IN  /\ req' = [given |-> o, validated |-> TRUE]
               /\ IF ValidateModelConfigRaises(o)
                  THEN options' = NoneObj /\ pc' = "options_failed"
                  ELSE options' = o /\ pc' = "options"
    /\ UNCHANGED <<environ, service, calls, result>>

\* An options object whose fields were set without the validator running
\* (model_construct, or assignment to a field: the class does not validate
\* assignments, and the service itself assigns to options.runpod_config).
UnvalidatedOptions ==
    /\ pc = "start"
    /\ \E mt \in ModelTypes, rc \in GivenRunPodConfigs, oc \in GivenOpenAIConfigs :
           LET o == Options(mt, rc, oc)
           IN  /\ req' = [given |-> o, validated |-> FALSE]
               /\ options' = o
               /\ pc' = "options"
    /\ UNCHANGED <<environ, service, calls, result>>

\* PictureAnnotationService.__init__, lines 26-28; with no options given the
\* service builds PictureAnnotationOptions() itself
ServiceInit ==
    /\ pc \in {"start", "options"}
    /\ LET o == IF options = NoneObj THEN Options(TYPE_LOCAL, NoneObj, NoneObj) ELSE options
           v == ValidateConfiguration(o, environ)
       IN  IF v.raises
           THEN /\ pc' = "service_failed"
                /\ service' = NoneObj
                /\ options' = options
           ELSE /\ pc' = "service"
                /\ service' = [options |-> v.options]
                /\ options' = v.options
    /\ UNCHANGED <<environ, req, calls, result>>

\* service.annotate_image(image)
AnnotateCall ==
    /\ pc = "service"
    /\ calls < MaxCalls
    /\ \E fault \in AnnFaults, content \in Contents :
           LET r == AnnotateImage(service.options, fault, content)
           IN  /\ (fault # "none") => content = None
               /\ (service.options.model_type = TYPE_LOCAL) => (fault = "none" /\ content = None)
               /\ result' = [fault |-> fault, content |-> content, outcome |-> r]
               /\ calls' = calls + r.called
    /\ UNCHANGED <<environ, pc, req, options, service>>

EnhIdle ==
    /\ models_loaded = FALSE /\ load = [attempts |-> 0, ok |-> FALSE]
    /\ phase = "off" /\ ocr = NoCall /\ tbl = NoCall

InitAnnotation == AnnInit /\ EnhIdle

NextAnnotation ==
    \/ (ConstructOptions /\ UNCHANGED enh_vars)
    \/ (UnvalidatedOptions /\ UNCHANGED enh_vars)
    \/ (ServiceInit /\ UNCHANGED enh_vars)
    \/ (AnnotateCall /\ UNCHANGED enh_vars)

SpecAnnotation == InitAnnotation /\ [][NextAnnotation]_vars

(***************************************************************************)
(* Claims about picture annotation                                         *)
(***************************************************************************)
Annotated == result # NoneObj
Res == result.outcome.res
Given == req.given

\* C6: annotate_image never raises; any failure becomes a result with empty
\* text, provenance equal to the kind's value and error set to the failure
\* message; so in every result, error set implies text empty.
C6_AnnotateNeverRaises ==
    Annotated =>
        /\ result.outcome.kind = "return"
        /\ (result.fault # "none") =>
               /\ Res.text = ""
               /\ Res.provenance = service.options.model_type
               /\ Res.error # None
               /\ (result.fault = "call") => Res.error = "Request timed out."
        /\ (Res.error # None) => Res.text = ""

\* kind = RunPod, the backend call times out
C6_Witness ==
    /\ Annotated /\ service.options.model_type = "runpod" /\ result.fault = "call"
    /\ Res = [text |-> "", provenance |-> "runpod", confidence |-> None,
              error |-> "Request timed out."]

\* the provenance that names the backend and, for the API kinds, its model
FullProvenance(o) ==
    IF o.model_type = "runpod" THEN "runpod:" \o o.runpod_config.model
    ELSE IF o.model_type = "openai" THEN "openai:" \o o.openai_config.model
    ELSE "local_model"

\* C7 as stated: in every result, on success and on failure alike, provenance
\* identifies the backend and, for RunPod and OpenAI, also the configured model.
C7_ProvenanceAlwaysNamesModel ==
    Annotated =>
        (service.options.model_type \in {"runpod", "openai"}
            => Res.provenance = FullProvenance(service.options))

\* C7 as amended: provenance always identifies the selected backend; it names
\* the configured model as well only when the call succeeds, and on failure
\* it is the bare value of the kind.
C7_ProvenanceNamesModelOnSuccess ==
    Annotated =>
        /\ (Res.error = None) => Res.provenance = FullProvenance(service.options)
        /\ (Res.error # None) => Res.provenance = service.options.model_type

C7_Witness ==
    /\ Annotated /\ service.options.model_type = "runpod"
    /\ service.options.runpod_config.model = "custom-model"
    /\ result.fault = "parse"
    /\ Res.provenance = "runpod"

EnvHasRunPod == Truthy(environ.RUNPOD_API_KEY) /\ Truthy(environ.RUNPOD_WORKER)
EnvHasOpenAI == Truthy(environ.OPENAI_API_KEY)

RunPodFromEnv ==
    [api_key |-> environ.RUNPOD_API_KEY, worker_id |-> environ.RUNPOD_WORKER,
     model |-> IF environ.RUNPOD_MODEL = None
               THEN "Qwen/Qwen2.5-VL-3B-Instruct" ELSE environ.RUNPOD_MODEL]

\* C8: with kind = RunPod, no RunPodConfig supplied and RUNPOD_API_KEY and
\* RUNPOD_WORKER in the environment, building the options and the service
\* from them succeeds and yields the config built from the environment;
\* likewise for OpenAI with OPENAI_API_KEY.
C8_EnvFallbackSucceeds ==
    (req # NoneObj /\ req.validated) =>
        /\ (Given.model_type = "runpod" /\ Given.runpod_config = NoneObj /\ EnvHasRunPod)
               => /\ pc \notin {"options_failed", "service_failed"}
                  /\ (pc = "service") => options.runpod_config = RunPodFromEnv
        /\ (Given.model_type = "openai" /\ Given.openai_config = NoneObj /\ EnvHasOpenAI)
               => /\ pc \notin {"options_failed", "service_failed"}
                  /\ (pc = "service") => options.openai_config.api_key = environ.OPENAI_API_KEY

\* the selected kind has no config and the environment cannot supply one
MissingConfig ==
    /\ req # NoneObj
    /\ \/ (Given.model_type = "runpod" /\ Given.runpod_config = NoneObj /\ ~EnvHasRunPod)
       \/ (Given.model_type = "openai" /\ Given.openai_config = NoneObj /\ ~EnvHasOpenAI)

\* C9: from such inputs no service instance is ever obtained, so the number
\* of chat-completion calls stays 0.
C9_NoCallWithoutConfig ==
    MissingConfig => (service = NoneObj /\ pc # "service" /\ calls = 0 /\ ~Annotated)

C9_Witness ==
    /\ MissingConfig /\ req.validated /\ Given.model_type = "runpod"
    /\ pc = "options_failed" /\ service = NoneObj /\ calls = 0

ExactlyMatchingConfig(o) ==
    /\ (o.model_type = "local") => (o.runpod_config = NoneObj /\ o.openai_config = NoneObj)
    /\ (o.model_type = "runpod") => (o.runpod_config # NoneObj /\ o.openai_config = NoneObj)
    /\ (o.model_type = "openai") => (o.openai_config # NoneObj /\ o.runpod_config = NoneObj)

\* C10: in every options object that reaches annotate_image exactly the
\* provider config matching kind is non-null (stated here for the options the
\* validator has accepted, and for the service's own default options).
C10_ExactlyMatchingConfig ==
    (service # NoneObj /\ (req = NoneObj \/ req.validated))
        => ExactlyMatchingConfig(service.options)

ApiKind == service.options.model_type \in {"runpod", "openai"}

\* C11 as stated: each annotate_image call enters exactly the handler matching
\* kind and makes exactly one chat-completion call for RunPod and OpenAI, none
\* for Local, with no second call after a failure.
C11_ExactlyOneCall ==
    Annotated =>
        /\ result.outcome.handler = service.options.model_type
        /\ result.outcome.called = (IF ApiKind THEN 1 ELSE 0)

\* C11 as amended: the handler matching kind is the one entered; Local makes
\* no chat-completion call; RunPod and OpenAI make at most one, exactly one
\* once the image is encoded and none when encoding fails first; a failed call
\* is not followed by another.
C11_AtMostOneCall ==
    Annotated =>
        /\ result.outcome.handler = service.options.model_type
        /\ result.outcome.called \in {0, 1}
        /\ (~ApiKind) => result.outcome.called = 0
        /\ (ApiKind /\ result.fault = "encode") => result.outcome.called = 0
        /\ (ApiKind /\ result.fault # "encode") => result.outcome.called = 1

\* a call that timed out: one call made, none after it
C11_Witness ==
    /\ Annotated /\ service.options.model_type = "openai"
    /\ result.fault = "call" /\ result.outcome.called = 1
    /\ result.outcome.handler = "openai" /\ calls = 1

\* C12: for kind = OpenAI (resp. RunPod) with a valid config and a backend call
\* that returns normally, the result has the first choice's content as text
\* (a choice without content gives the empty text), provenance
\* "openai:<model>" (resp. "runpod:<model>") with the configured model, and
\* error None.
C12_SuccessResult ==
    (Annotated /\ ApiKind /\ result.fault = "none") =>
        /\ result.outcome.kind = "return"
        /\ Res.text = (IF result.content = None THEN "" ELSE result.content)
        /\ (service.options.model_type = "openai")
               => Res.provenance = "openai:" \o service.options.openai_config.model
        /\ (service.options.model_type = "runpod")
               => Res.provenance = "runpod:" \o service.options.runpod_config.model
        /\ Res.error = None

\* scenario A: OpenAI, the backend returns "a red car"
C12_Witness ==
    /\ Annotated /\ service.options.model_type = "openai" /\ result.fault = "none"
    /\ service.options.openai_config.model = "gpt-4o"
    /\ Res = [text |-> "a red car", provenance |-> "openai:gpt-4o",
              confidence |-> None, error |-> None]

\* the models failed to load, or surya is not available
LoadFailed == ~load.ok

\* what every call on an instance whose load failed must look like
ShortCircuited ==
    /\ OcrCalled => /\ ~ocr.outcome.backend_called
                    /\ ocr.outcome.kind = "return"
                    /\ ocr.outcome.text = ocr.old_text
    /\ TblCalled => /\ ~tbl.outcome.backend_called
                    /\ tbl.outcome.invoked = {}
                    /\ tbl.post = tbl.pre

\* C13: model initialization is attempted at most once over the instance's
\* lifetime; a failed or impossible load is recorded for good (no call changes
\* the flag or loads again), and every later extract_text_from_region and
\* enhance_table_structure call returns without invoking a backend and without
\* modifying a cell, extract_text_from_region returning old_text.
C13_LoadOnceFailureSticks ==
    /\ [](load.attempts <= 1)
    /\ [](LoadFailed => (~models_loaded /\ ShortCircuited))
    /\ [][load' = load /\ models_loaded' = models_loaded]_vars

\* a table call on an instance whose load was attempted and failed
C13_Witness ==
    /\ load.attempts = 1 /\ LoadFailed /\ ~models_loaded
    /\ TblCalled /\ Len(tbl.pre) = 2 /\ tbl.post = tbl.pre
    /\ ~tbl.outcome.backend_called
====
